---- MODULE Spec2Model ----
(***************************************************************************)
(* Bill persistence helpers of the billing UI: Store A (billStorage.js,    *)
(* slot "saved_bills") and Store B (billstorage2.js, slot                  *)
(* "saved_bills02").  Every exported function is one synchronous           *)
(* read-modify-write of the whole JSON array kept in its localStorage      *)
(* slot, so every exported function is one atomic action.                  *)
(*                                                                         *)
(* Values.  A JS string produced by the code (id, invoiceNumber, status,   *)
(* timestamps, error messages) is a TLA+ string.  The four fields that the *)
(* duplicate check lower-cases (customer, address, city) or compares       *)
(* (invoice) are sequences of one-character strings so that toLowerCase    *)
(* is computed character by character.  A JS object is a function from     *)
(* its own property names to values; `Undefined` is the JS value           *)
(* undefined.                                                              *)
(*                                                                         *)
(* Clock.  `now` counts milliseconds from the model's first instant; a     *)
(* call is synchronous and short, and all its reads of the clock           *)
(* (getFullYear, Date.now, toISOString) fall in the instant `now`.  Time   *)
(* passes between calls (Tick), or does not.                               *)
(*                                                                         *)
(* Tabs.  Within one tab a call is atomic (Spec, SpecRaw, SpecBulk).  The  *)
(* slots are shared by the tabs of the origin: SpecTabs takes saveBill in  *)
(* two steps, the read and the write, for each of two tabs; `tabs` holds   *)
(* what a tab has read and built between its two steps.                    *)
(***************************************************************************)
EXTENDS Integers, Sequences, FiniteSets, TLC

VARIABLES storage, now, last, calls, tabs

vars == <<storage, now, last, calls, tabs>>

(***************************************************************************)
(* Bounds of the model.                                                    *)
(***************************************************************************)
\* most calls in one behaviour
MaxCalls == 4
\* most records held by the two slots together (Spec, SpecRaw)
MaxBills == 3
\* the instant (in milliseconds) at which the calendar year changes
MsToNewYear == 1
\* the calendar year at instant 0
BaseYear == 2024
\* SpecBulk: a slot starts with no record, BulkFrom - 1 or BulkFrom records,
\* and BulkCalls calls at most are made
BulkFrom == 999
BulkCalls == 2
\* the instants of the clock: two calls are made in the same millisecond or
\* a later one, in the same calendar year or the next
Instants == {0, 1}

(***************************************************************************)
(* Program constants.                                                      *)
(***************************************************************************)
\* padStart(3, '0')
PadWidth == 3

KeyA == "saved_bills"
\* the key of billStorage.js kept in the copy that became billstorage2.js
KeyBOfStoreA == "saved_bills"

KeyB == "saved_bills02"
Keys == {KeyA, KeyB}

Undefined == "<undefined>"

NotFoundMessage == "Bill not found"
DuplicateMessage == "Bill with same customer details and invoice number already exists"

(***************************************************************************)
(* Built-ins of the language and of the host.                              *)
(***************************************************************************)
Digit(d) ==
  CASE d = 0 -> "0" [] d = 1 -> "1" [] d = 2 -> "2" [] d = 3 -> "3"
    [] d = 4 -> "4" [] d = 5 -> "5" [] d = 6 -> "6" [] d = 7 -> "7"
    [] d = 8 -> "8" [] d = 9 -> "9"

RECURSIVE NumberToString(_)
\* Number.prototype.toString() of a non-negative integer: decimal, no padding
NumberToString(n) ==
  IF n < 10 THEN Digit(n) ELSE NumberToString(n \div 10) \o Digit(n % 10)

RECURSIVE padStart(_, _, _)
\* String.prototype.padStart(width, fill) with a one-character fill: the
\* string is returned as it is once it is at least `width` long
padStart(s, width, fill) ==
  IF Len(s) >= width THEN s ELSE padStart(fill \o s, width, fill)

\* String.prototype.toLowerCase over the alphabet the model uses
LowerChar(c) ==
  CASE c = "A" -> "a" [] c = "C" -> "c" [] c = "I" -> "i"
    [] c = "X" -> "x" [] c = "Y" -> "y" [] OTHER -> c

toLowerCase(s) == [i \in DOMAIN s |-> LowerChar(s[i])]

\* new Date().getFullYear() read at instant t
getFullYear(t) == IF t < MsToNewYear THEN BaseYear ELSE BaseYear + 1

\* Date.now().toString() read at instant t
DateNowString(t) == NumberToString(t)

\* new Date().toISOString() read at instant t: instant 0 is MsToNewYear
\* milliseconds before midnight of 1 January BaseYear+1 (UTC)
toISOString(t) ==
  IF t < MsToNewYear
    THEN NumberToString(BaseYear) \o "-12-31T23:59:59."
           \o padStart(NumberToString(1000 - MsToNewYear + t), 3, "0") \o "Z"
    ELSE NumberToString(BaseYear + 1) \o "-01-01T00:00:00."
           \o padStart(NumberToString(t - MsToNewYear), 3, "0") \o "Z"

\* { ...a, ...b }: b's own properties over a's
Spread(a, b) ==
  [k \in DOMAIN a \cup DOMAIN b |-> IF k \in DOMAIN b THEN b[k] ELSE a[k]]

IsUndefined(v) == v = Undefined

\* obj.k: undefined when obj has no property k
Prop(obj, k) == IF k \in DOMAIN obj THEN obj[k] ELSE Undefined

(***************************************************************************)
(* localStorage and JSON.  A slot holds no value (getItem gives null) or a *)
(* text: the empty text, a text that is not JSON, the JSON text null, or   *)
(* the JSON text of an array of objects.                                   *)
(***************************************************************************)
Absent == [kind |-> "absent"]
EmptyText == [kind |-> "empty"]
InvalidText == [kind |-> "invalid"]
NullText == [kind |-> "null"]
ArrayText(objs) == [kind |-> "array", bills |-> objs]

\* JSON.stringify of one object: a property whose value is undefined is left out
StringifyObject(obj) ==
  [k \in {p \in DOMAIN obj : ~IsUndefined(obj[p])} |-> obj[k]]

\* JSON.stringify(bills)
JSONstringify(bills) ==
  ArrayText([i \in 1..Len(bills) |-> StringifyObject(bills[i])])

\* JSON.parse(text): the value, or a thrown SyntaxError
JSONparse(text) ==
  CASE text.kind = "array" -> [kind |-> "array", bills |-> text.bills]
    [] text.kind = "null" -> [kind |-> "null"]
    [] OTHER -> [kind |-> "throw", error |-> "SyntaxError"]

\* localStorage.setItem(key, text)
setItem(key, text) == [storage EXCEPT ![key] = text]

\* getSavedBills / getSavedBills2: stored ? JSON.parse(stored) : []
SavedBills(key) ==
  LET stored == storage[key]
  IN  IF stored.kind \in {"absent", "empty"}
        THEN [kind |-> "array", bills |-> <<>>]
        ELSE JSONparse(stored)

\* the array a slot holds, for the formulas: empty when it holds no array
BillsOf(st, key) == IF st[key].kind = "array" THEN st[key].bills ELSE <<>>

(***************************************************************************)
(* Pure parts of the operations.                                           *)
(***************************************************************************)
\* bills.findIndex(bill => bill.id === id), 1-based; 0 stands for -1
findIndex(bills, id) ==
  LET hits == {i \in 1..Len(bills) : Prop(bills[i], "id") = id}
  IN  IF hits = {} THEN 0 ELSE CHOOSE i \in hits : \A j \in hits : i <= j

\* bills.find(bill => bill.id === id) || null
find(bills, id) ==
  IF findIndex(bills, id) = 0 THEN [kind |-> "null"]
  ELSE [kind |-> "bill", bill |-> bills[findIndex(bills, id)]]

\* bills.splice(billIndex): everything from billIndex on is removed
spliceToEnd(bills, idx) == [i \in 1..(idx - 1) |-> bills[i]]

\* bills.splice(billIndex, 1)
splice(bills, idx) ==
  [i \in 1..(Len(bills) - 1) |-> IF i < idx THEN bills[i] ELSE bills[i + 1]]

\* the sequence taken as bills.length
InvoiceNumberFromCount(bills, t) ==
  "INV-" \o NumberToString(getFullYear(t)) \o "-"
    \o padStart(NumberToString(Len(bills)), PadWidth, "0")

\* the sequence taken as the first number from bills.length + 1 on that no
\* stored record carries for the year
InvoiceNumberUnused(bills, t) ==
  LET numberOf(n) == "INV-" \o NumberToString(getFullYear(t)) \o "-"
                       \o padStart(NumberToString(n), PadWidth, "0")
      used(n) == \E i \in 1..Len(bills) :
                   Prop(bills[i], "invoiceNumber") = numberOf(n)
      first == CHOOSE n \in (Len(bills) + 1)..(2 * Len(bills) + 1) :
                 /\ ~used(n)
                 /\ \A m \in (Len(bills) + 1)..(n - 1) : used(m)
  IN  numberOf(first)

\* `INV-${year}-${(bills.length + 1).toString().padStart(3, '0')}`
InvoiceNumber(bills, t) ==
  "INV-" \o NumberToString(getFullYear(t)) \o "-"
    \o padStart(NumberToString(Len(bills) + 1), PadWidth, "0")

\* the object literal with ...billData written after the generated fields
NewBillCallerLast(billData, bills, t) ==
  Spread([id |-> DateNowString(t),
          invoiceNumber |-> InvoiceNumber(bills, t),
          status |-> "Pending",
          createdAt |-> toISOString(t)],
         billData)

\* the object literal of saveBill / saveBill2
NewBill(billData, bills, t) ==
  Spread(billData,
         [id |-> DateNowString(t),
          invoiceNumber |-> InvoiceNumber(bills, t),
          status |-> "Pending",
          createdAt |-> toISOString(t)])

\* ...billData spread last: the caller's values win
UpdatedBillCallerLast(existingBill, billData, t) ==
  Spread(Spread(existingBill,
                [id |-> Prop(existingBill, "id"),
                 invoiceNumber |-> Prop(existingBill, "invoiceNumber"),
                 createdAt |-> Prop(existingBill, "createdAt"),
                 updatedAt |-> toISOString(t)]),
         billData)

\* the object literal without ...existingBill
UpdatedBillReplacing(existingBill, billData, t) ==
  Spread(billData,
         [id |-> Prop(existingBill, "id"),
          invoiceNumber |-> Prop(existingBill, "invoiceNumber"),
          createdAt |-> Prop(existingBill, "createdAt"),
          updatedAt |-> toISOString(t)])

\* the object literal of updateBill / updateBill2
UpdatedBill(existingBill, billData, t) ==
  Spread(Spread(existingBill, billData),
         [id |-> Prop(existingBill, "id"),
          invoiceNumber |-> Prop(existingBill, "invoiceNumber"),
          createdAt |-> Prop(existingBill, "createdAt"),
          updatedAt |-> toISOString(t)])

\* bills[billIndex].status = status; bills[billIndex].updatedAt = ...
WithStatus(bill, status, t) ==
  Spread(bill, [status |-> status, updatedAt |-> toISOString(t)])

\* the invoice reference lower-cased like the other three fields
SameBillAnyCase(bill, billData) ==
  /\ toLowerCase(bill.customer) = toLowerCase(billData.customer)
  /\ toLowerCase(bill.address) = toLowerCase(billData.address)
  /\ toLowerCase(bill.city) = toLowerCase(billData.city)
  /\ toLowerCase(bill.invoice) = toLowerCase(billData.invoice)

\* the predicate of bills.some(...) in saveBill2
SameBill(bill, billData) ==
  /\ toLowerCase(bill.customer) = toLowerCase(billData.customer)
  /\ toLowerCase(bill.address) = toLowerCase(billData.address)
  /\ toLowerCase(bill.city) = toLowerCase(billData.city)
  /\ bill.invoice = billData.invoice

isDuplicate(bills, billData) ==
  \E i \in 1..Len(bills) : SameBill(bills[i], billData)

(***************************************************************************)
(* Results of a call.                                                      *)
(***************************************************************************)
Throw(msg) == [kind |-> "throw", error |-> msg]
ReturnBill(b) == [kind |-> "bill", bill |-> b]
ReturnBills(bs) == [kind |-> "array", bills |-> bs]
ReturnBool(b) == [kind |-> "bool", value |-> b]
ReturnNull == [kind |-> "null"]
ReturnVoid == [kind |-> "void"]

\* the callers that share the slots (two browser tabs), and where each is in
\* a saveBill of its own: not in one, or between its read of the slot and
\* its write
Tabs == {1, 2}
Idle == [pc |-> "idle"]
NoTabs == [t \in Tabs |-> Idle]

\* the call `op` on slot `key` ends with `result`, the storage being `st`;
\* `wrote` tells whether it called setItem
Done(op, key, args, result, st, wrote) ==
  /\ storage' = st
  /\ last' = [op |-> op, key |-> key, args |-> args, result |-> result,
              wrote |-> wrote, before |-> storage, at |-> now]
  /\ now' = now
  /\ calls' = calls + 1
  /\ tabs' = tabs

\* what a call does when its read of the slot gives no array: JSON.parse
\* threw, or it gave null and the first use of `bills` throws a TypeError
NoArray(op, key, args, got) ==
  Done(op, key, args,
       IF got.kind = "throw" THEN got ELSE Throw("TypeError"), storage, FALSE)

(***************************************************************************)
(* Inputs.                                                                 *)
(***************************************************************************)
Acme == <<"A", "c">>
AcmeUpper == <<"A", "C">>
Bolt == <<"b", "o">>
Street == <<"x">>
StreetUpper == <<"X">>
Town == <<"y">>
Port == <<"z">>
Ref == <<"i">>
RefUpper == <<"I">>

\* a caller's values for the fields the stores generate
OwnFields ==
  [id |-> "77", invoiceNumber |-> "INV-0-000", status |-> "Paid",
   createdAt |-> "never", updatedAt |-> "never"]

\* billData passed to saveBill
BillDataA ==
  { [customer |-> Acme, notes |-> "n1"],
    Spread([customer |-> Bolt, notes |-> Undefined], OwnFields) }

Form(c, a, t, i) == [customer |-> c, address |-> a, city |-> t, invoice |-> i]

\* billData passed to saveBill2
BillDataB ==
  { Form(Acme, Street, Town, Ref),
    Form(AcmeUpper, StreetUpper, Town, Ref),
    Form(Acme, Street, Town, RefUpper),
    Spread(Form(Acme, Street, Port, Ref), OwnFields) }

\* billData passed to updateBill and updateBill2
PatchData == { [notes |-> "n2"], OwnFields }
PatchDataB == PatchData \cup { Form(AcmeUpper, Street, Town, Ref) }

Statuses == {"Paid", "Overdue"}

MissingId == "404"

\* ids a caller may pass: those of the records in the slot and one of no record
IdsFor(key) ==
  {Prop(BillsOf(storage, key)[i], "id") : i \in 1..Len(BillsOf(storage, key))}
    \cup {MissingId}

TotalBills == Len(BillsOf(storage, KeyA)) + Len(BillsOf(storage, KeyB))

(***************************************************************************)
(* Operations shared by the two modules (the code is the same but for the  *)
(* slot).                                                                  *)
(***************************************************************************)
\* an id that is not found is stored as a new record
UpdateInUpsert(op, key, id, billData) ==
  LET got == SavedBills(key)
      args == [id |-> id, billData |-> billData]
  IN  IF got.kind # "array" THEN NoArray(op, key, args, got)
      ELSE LET bills == got.bills
               billIndex == findIndex(bills, id)
               updatedBill ==
                 IF billIndex = 0 THEN UpdatedBill([id |-> id], billData, now)
                 ELSE UpdatedBill(bills[billIndex], billData, now)
               changed ==
                 IF billIndex = 0 THEN Append(bills, updatedBill)
                 ELSE [bills EXCEPT ![billIndex] = updatedBill]
           IN  Done(op, key, args, ReturnBill(updatedBill),
                    setItem(key, JSONstringify(changed)), TRUE)

UpdateIn(op, key, id, billData) ==
  LET got == SavedBills(key)
      args == [id |-> id, billData |-> billData]
  IN  IF got.kind # "array" THEN NoArray(op, key, args, got)
      ELSE LET bills == got.bills
               billIndex == findIndex(bills, id)
           IN  IF billIndex = 0
                 THEN Done(op, key, args, Throw(NotFoundMessage), storage, FALSE)
                 ELSE LET updatedBill == UpdatedBill(bills[billIndex], billData, now)
                          changed == [bills EXCEPT ![billIndex] = updatedBill]
                      IN  Done(op, key, args, ReturnBill(updatedBill),
                               setItem(key, JSONstringify(changed)), TRUE)

\* getSavedBills storing the array it has read
GetAllInWritingBack(op, key) ==
  LET got == SavedBills(key)
  IN  Done(op, key, [none |-> TRUE], got,
           IF got.kind = "array"
             THEN setItem(key, JSONstringify(got.bills)) ELSE storage,
           got.kind = "array")

GetAllIn(op, key) ==
  LET got == SavedBills(key)
  IN  Done(op, key, [none |-> TRUE], got, storage, FALSE)

GetByIdIn(op, key, id) ==
  LET got == SavedBills(key)
      args == [id |-> id]
  IN  IF got.kind # "array" THEN NoArray(op, key, args, got)
      ELSE Done(op, key, args, find(got.bills, id), storage, FALSE)

\* setItem called outside the `if`
UpdateStatusInAlwaysWrites(op, key, id, status) ==
  LET got == SavedBills(key)
      args == [id |-> id, status |-> status]
  IN  IF got.kind # "array" THEN NoArray(op, key, args, got)
      ELSE LET bills == got.bills
               billIndex == findIndex(bills, id)
               changed ==
                 IF billIndex = 0 THEN bills
                 ELSE [bills EXCEPT ![billIndex] =
                         WithStatus(bills[billIndex], status, now)]
           IN  Done(op, key, args, ReturnVoid,
                    setItem(key, JSONstringify(changed)), TRUE)

\* every record with the id changed: bills.map in place of findIndex
UpdateStatusInEveryMatch(op, key, id, status) ==
  LET got == SavedBills(key)
      args == [id |-> id, status |-> status]
  IN  IF got.kind # "array" THEN NoArray(op, key, args, got)
      ELSE LET bills == got.bills
           IN  IF findIndex(bills, id) # 0
                 THEN Done(op, key, args, ReturnVoid,
                           setItem(key, JSONstringify(
                             [i \in 1..Len(bills) |->
                                IF Prop(bills[i], "id") = id
                                  THEN WithStatus(bills[i], status, now)
                                  ELSE bills[i]])),
                           TRUE)
                 ELSE Done(op, key, args, ReturnVoid, storage, FALSE)

UpdateStatusIn(op, key, id, status) ==
  LET got == SavedBills(key)
      args == [id |-> id, status |-> status]
  IN  IF got.kind # "array" THEN NoArray(op, key, args, got)
      ELSE LET bills == got.bills
               billIndex == findIndex(bills, id)
           IN  IF billIndex # 0
                 THEN Done(op, key, args, ReturnVoid,
                           setItem(key, JSONstringify(
                             [bills EXCEPT ![billIndex] =
                                WithStatus(bills[billIndex], status, now)])),
                           TRUE)
                 ELSE Done(op, key, args, ReturnVoid, storage, FALSE)

DeleteIn(op, key, id) ==
  LET got == SavedBills(key)
      args == [id |-> id]
  IN  IF got.kind # "array" THEN NoArray(op, key, args, got)
      ELSE LET bills == got.bills
               billIndex == findIndex(bills, id)
           IN  IF billIndex # 0
                 THEN Done(op, key, args, ReturnBool(TRUE),
                           setItem(key, JSONstringify(splice(bills, billIndex))),
                           TRUE)
                 ELSE Done(op, key, args, ReturnBool(FALSE), storage, FALSE)

(***************************************************************************)
(* Store A: billStorage.js                                                 *)
(***************************************************************************)
\* bills.unshift(newBill) in place of bills.push(newBill)
saveBillUnshift(billData) ==
  LET got == SavedBills(KeyA)
      args == [billData |-> billData]
  IN  IF got.kind # "array" THEN NoArray("saveBill", KeyA, args, got)
      ELSE LET bills == got.bills
               newBill == NewBill(billData, bills, now)
           IN  Done("saveBill", KeyA, args, ReturnBill(newBill),
                    setItem(KeyA, JSONstringify(<<newBill>> \o bills)), TRUE)

saveBill(billData) ==
  LET got == SavedBills(KeyA)
      args == [billData |-> billData]
  IN  IF got.kind # "array" THEN NoArray("saveBill", KeyA, args, got)
      ELSE LET bills == got.bills
               newBill == NewBill(billData, bills, now)
           IN  Done("saveBill", KeyA, args, ReturnBill(newBill),
                    setItem(KeyA, JSONstringify(Append(bills, newBill))), TRUE)

updateBill(id, billData) == UpdateIn("updateBill", KeyA, id, billData)
getSavedBills == GetAllIn("getSavedBills", KeyA)
getBillById(id) == GetByIdIn("getBillById", KeyA, id)
updateBillStatus(id, status) == UpdateStatusIn("updateBillStatus", KeyA, id, status)
deleteBill(id) == DeleteIn("deleteBill", KeyA, id)

(***************************************************************************)
(* Store B: billstorage2.js                                                *)
(***************************************************************************)
\* the duplicate check made after the record is pushed and persisted
saveBill2CheckLate(billData) ==
  LET got == SavedBills(KeyB)
      args == [billData |-> billData]
  IN  IF got.kind # "array" THEN NoArray("saveBill2", KeyB, args, got)
      ELSE LET bills == got.bills
               newBill == NewBill(billData, bills, now)
           IN  Done("saveBill2", KeyB, args,
                    IF isDuplicate(bills, billData) THEN Throw(DuplicateMessage)
                                                    ELSE ReturnBill(newBill),
                    setItem(KeyB, JSONstringify(Append(bills, newBill))), TRUE)

saveBill2(billData) ==
  LET got == SavedBills(KeyB)
      args == [billData |-> billData]
  IN  IF got.kind # "array" THEN NoArray("saveBill2", KeyB, args, got)
      ELSE LET bills == got.bills
           IN  IF isDuplicate(bills, billData)
                 THEN Done("saveBill2", KeyB, args, Throw(DuplicateMessage),
                           storage, FALSE)
                 ELSE LET newBill == NewBill(billData, bills, now)
                      IN  Done("saveBill2", KeyB, args, ReturnBill(newBill),
                               setItem(KeyB, JSONstringify(Append(bills, newBill))),
                               TRUE)

updateBill2(id, billData) == UpdateIn("updateBill2", KeyB, id, billData)
getSavedBills2 == GetAllIn("getSavedBills2", KeyB)
getBillById2(id) == GetByIdIn("getBillById2", KeyB, id)
updateBillStatus2(id, status) == UpdateStatusIn("updateBillStatus2", KeyB, id, status)
deleteBill2(id) == DeleteIn("deleteBill2", KeyB, id)

(***************************************************************************)
(* The clock: a millisecond passes between two calls.                      *)
(***************************************************************************)
Tick ==
  /\ now + 1 \in Instants
  /\ now' = now + 1
  /\ UNCHANGED <<storage, last, calls, tabs>>

NoCall ==
  [op |-> "none", key |-> KeyA, args |-> [none |-> TRUE], result |-> ReturnVoid,
   wrote |-> FALSE, before |-> [k \in Keys |-> Absent], at |-> 0]

\* both slots empty: nothing was ever stored
Init ==
  /\ storage = [k \in Keys |-> Absent]
  /\ now = 0
  /\ last = NoCall
  /\ calls = 0
  /\ tabs = NoTabs

\* the bounds on a call: the calls made so far, the records held afterwards
InBounds == calls < MaxCalls
Fits == TotalBills' <= MaxBills

Next ==
  \/ Tick
  \/ \E d \in BillDataA : InBounds /\ saveBill(d) /\ Fits
  \/ \E id \in IdsFor(KeyA), d \in PatchData : InBounds /\ updateBill(id, d)
  \/ InBounds /\ getSavedBills
  \/ \E id \in IdsFor(KeyA) : InBounds /\ getBillById(id)
  \/ \E id \in IdsFor(KeyA), s \in Statuses : InBounds /\ updateBillStatus(id, s)
  \/ \E id \in IdsFor(KeyA) : InBounds /\ deleteBill(id)
  \/ \E d \in BillDataB : InBounds /\ saveBill2(d) /\ Fits
  \/ \E id \in IdsFor(KeyB), d \in PatchDataB : InBounds /\ updateBill2(id, d)
  \/ InBounds /\ getSavedBills2
  \/ \E id \in IdsFor(KeyB) : InBounds /\ getBillById2(id)
  \/ \E id \in IdsFor(KeyB), s \in Statuses : InBounds /\ updateBillStatus2(id, s)
  \/ \E id \in IdsFor(KeyB) : InBounds /\ deleteBill2(id)

\* the two stores, started with nothing stored
Spec == Init /\ [][Next]_vars

(***************************************************************************)
(* The slots as another script of the page, or the user, may have left     *)
(* them: localStorage is shared by everything of the origin.               *)
(***************************************************************************)
RawSlots == {Absent, EmptyText, InvalidText, NullText}

InitRaw ==
  /\ storage \in [Keys -> RawSlots]
  /\ now = 0
  /\ last = [NoCall EXCEPT !.before = storage]
  /\ calls = 0
  /\ tabs = NoTabs

SpecRaw == InitRaw /\ [][Next]_vars

(***************************************************************************)
(* A store that many saves have filled.  Store A: the same form saved      *)
(* again and again; Store B: forms that differ in their invoice reference  *)
(* (saveBill2 refuses a form it holds already).                            *)
(***************************************************************************)
RECURSIVE Digits(_)
\* the decimal digits of n, one character each
Digits(n) ==
  IF n < 10 THEN <<Digit(n)>> ELSE Append(Digits(n \div 10), Digit(n % 10))

BulkForm(key, i) ==
  IF key = KeyA THEN [customer |-> Acme, notes |-> "n1"]
                ELSE Form(Acme, Street, Town, Digits(i))

\* the slot `key` after n saves at instant 0
BulkSlot(key, n) ==
  IF n = 0 THEN Absent
  ELSE JSONstringify(
         [i \in 1..n |-> NewBill(BulkForm(key, i), [j \in 1..(i - 1) |-> j], 0)])

BulkSizes == {0, BulkFrom - 1, BulkFrom}

InitBulk ==
  /\ \E key \in Keys, n \in BulkSizes :
       storage = [k \in Keys |-> IF k = key THEN BulkSlot(k, n) ELSE Absent]
  /\ now = 0
  /\ last = [NoCall EXCEPT !.before = storage]
  /\ calls = 0
  /\ tabs = NoTabs

InBoundsBulk == calls < BulkCalls

NextBulk ==
  \/ Tick
  \/ \E d \in BillDataA : InBoundsBulk /\ saveBill(d)
  \/ \E d \in BillDataB : InBoundsBulk /\ saveBill2(d)

SpecBulk == InitBulk /\ [][NextBulk]_vars

(***************************************************************************)
(* Two tabs.  localStorage is shared by the tabs of an origin and the code *)
(* takes no lock, so a saveBill of one tab can run between the getItem and *)
(* the setItem of a saveBill of the other.  A saveBill is two steps here:  *)
(* lines 29-40 (the read, the new record, the push) and lines 41-42 (the   *)
(* write and the return).                                                  *)
(***************************************************************************)
\* lines 29-40 of saveBill in tab t
saveBillRead(t, billData) ==
  /\ tabs[t].pc # "read"
  /\ LET got == SavedBills(KeyA)
         args == [billData |-> billData, tab |-> t]
     IN  IF got.kind # "array" THEN NoArray("saveBill", KeyA, args, got)
         ELSE /\ tabs' = [tabs EXCEPT ![t] =
                            [pc |-> "read", billData |-> billData,
                             bills |-> got.bills,
                             newBill |-> NewBill(billData, got.bills, now)]]
              /\ UNCHANGED <<storage, now, last, calls>>

\* lines 41-42 done on the array as the slot holds it at the write
saveBillWriteMerging(t) ==
  /\ tabs[t].pc = "read"
  /\ storage' = setItem(KeyA, JSONstringify(
                   Append(BillsOf(storage, KeyA), tabs[t].newBill)))
  /\ last' = [op |-> "saveBill", key |-> KeyA,
              args |-> [billData |-> tabs[t].billData, tab |-> t],
              result |-> ReturnBill(tabs[t].newBill),
              wrote |-> TRUE, before |-> storage, at |-> now]
  /\ tabs' = [tabs EXCEPT ![t].pc = "done"]
  /\ calls' = calls + 1
  /\ now' = now

\* lines 41-42 of saveBill in tab t: the array read at line 29, with the new
\* record pushed, is written over the slot
saveBillWrite(t) ==
  /\ tabs[t].pc = "read"
  /\ storage' = setItem(KeyA, JSONstringify(
                   Append(tabs[t].bills, tabs[t].newBill)))
  /\ last' = [op |-> "saveBill", key |-> KeyA,
              args |-> [billData |-> tabs[t].billData, tab |-> t],
              result |-> ReturnBill(tabs[t].newBill),
              wrote |-> TRUE, before |-> storage, at |-> now]
  /\ tabs' = [tabs EXCEPT ![t].pc = "done"]
  /\ calls' = calls + 1
  /\ now' = now

\* the calls begun so far, ended or not
Begun == calls + Cardinality({t \in Tabs : tabs[t].pc = "read"})

NextTabs ==
  \/ Tick
  \/ \E t \in Tabs, d \in BillDataA :
       /\ Begun < MaxCalls
       /\ Len(BillsOf(storage, KeyA)) < MaxBills
       /\ saveBillRead(t, d)
  \/ \E t \in Tabs : saveBillWrite(t)

SpecTabs == Init /\ [][NextTabs]_vars

(***************************************************************************)
(* Properties.  `last` records the call that led to the current state:     *)
(* its name, slot, arguments and result, the storage it started from and   *)
(* whether it called setItem.                                              *)
(***************************************************************************)
SaveOps == {"saveBill", "saveBill2"}
UpdateOps == {"updateBill", "updateBill2"}
GetAllOps == {"getSavedBills", "getSavedBills2"}
GetByIdOps == {"getBillById", "getBillById2"}
StatusOps == {"updateBillStatus", "updateBillStatus2"}
DeleteOps == {"deleteBill", "deleteBill2"}

\* the records of the called slot before and after the call
Before == BillsOf(last.before, last.key)
After == BillsOf(storage, last.key)

IdAt(bills, i) == Prop(bills[i], "id")
Holds(bills, id) == \E i \in 1..Len(bills) : IdAt(bills, i) = id

\* two objects read the same in every property
SameRecord(a, b) ==
  \A k \in DOMAIN a \cup DOMAIN b :
    IF k \in DOMAIN a /\ k \in DOMAIN b THEN a[k] = b[k]
    ELSE IsUndefined(Prop(a, k)) /\ IsUndefined(Prop(b, k))

GeneratedFields == {"id", "invoiceNumber", "createdAt"}

\* C1: in each store no two stored records have the same id, and a call
\* changes the id of no record that stays stored
IdsUniqueAndStable ==
  /\ \A key \in Keys :
       \A i, j \in 1..Len(BillsOf(storage, key)) :
         i # j => IdAt(BillsOf(storage, key), i) # IdAt(BillsOf(storage, key), j)
  /\ last.op \in UpdateOps \cup StatusOps \cup SaveOps
       => /\ Len(After) >= Len(Before)
          /\ \A i \in 1..Len(Before) : IdAt(After, i) = IdAt(Before, i)

\* C2: after a successful save, getById of the returned id gives a record
\* equal to the returned one in every field
SaveThenGetByIdGivesSaved ==
  last.op \in SaveOps /\ last.result.kind = "bill"
    => LET got == find(After, Prop(last.result.bill, "id"))
       IN  got.kind = "bill" /\ SameRecord(got.bill, last.result.bill)

\* C3: a successful update leaves id, invoiceNumber and createdAt of every
\* stored record as they were, and the record it returns carries those of the
\* record it updated (the first one with the id passed), whatever billData holds
UpdateKeepsGeneratedFields ==
  last.op \in UpdateOps /\ last.result.kind = "bill"
    => /\ Len(After) = Len(Before)
       /\ \A i \in 1..Len(Before) : \A f \in GeneratedFields :
            Prop(After[i], f) = Prop(Before[i], f)
       /\ \E i \in 1..Len(Before) :
            /\ IdAt(Before, i) = last.args.id
            /\ \A j \in 1..(i - 1) : IdAt(Before, j) # last.args.id
            /\ \A f \in GeneratedFields :
                 Prop(last.result.bill, f) = Prop(Before[i], f)

UpdateWithOwnFieldsDone ==
  /\ last.op \in UpdateOps /\ last.result.kind = "bill"
  /\ GeneratedFields \subseteq DOMAIN last.args.billData
  /\ last.args.billData.id # last.args.id
  /\ \E i \in 1..Len(Before) :
       /\ IdAt(Before, i) = last.args.id
       /\ last.args.billData.invoiceNumber # Before[i].invoiceNumber
       /\ last.args.billData.createdAt # Before[i].createdAt

\* C4: update with an id of no stored record throws 'Bill not found', calls
\* setItem not once, and leaves both slots (so what getAll returns) as they were
UpdateOfMissingIdFails ==
  last.op \in UpdateOps /\ ~Holds(Before, last.args.id)
    => /\ last.result = Throw(NotFoundMessage)
       /\ ~last.wrote
       /\ storage = last.before
       /\ After = Before

UpdateOfMissingIdDone ==
  /\ last.op \in UpdateOps /\ ~Holds(Before, last.args.id)
  /\ Len(Before) >= 2

\* C5: delete of an id no record has returns false and changes nothing;
\* otherwise it returns true and the array is the earlier one without exactly
\* one record of that id, the others as they were and in their order
DeleteRemovesExactlyOne ==
  last.op \in DeleteOps
    => IF ~Holds(Before, last.args.id)
         THEN /\ last.result = ReturnBool(FALSE)
              /\ storage = last.before
              /\ ~last.wrote
         ELSE /\ last.result = ReturnBool(TRUE)
              /\ Len(After) = Len(Before) - 1
              /\ \E i \in 1..Len(Before) :
                   /\ IdAt(Before, i) = last.args.id
                   /\ \A j \in 1..(i - 1) : After[j] = Before[j]
                   /\ \A j \in i..Len(After) : After[j] = Before[j + 1]
              /\ \A k \in Keys \ {last.key} : storage[k] = last.before[k]

DeleteFromTheMiddleDone ==
  /\ last.op \in DeleteOps /\ last.result = ReturnBool(TRUE)
  /\ Len(Before) = 3
  /\ IdAt(Before, 1) # last.args.id
  /\ IdAt(Before, 2) = last.args.id

\* letters that differ in case only
LetterPairs == {{"A", "a"}, {"C", "c"}, {"I", "i"}, {"X", "x"}, {"Y", "y"}}
SameLetter(c, d) == c = d \/ {c, d} \in LetterPairs
EqualIgnoringCase(s, u) ==
  Len(s) = Len(u) /\ \A i \in 1..Len(s) : SameLetter(s[i], u[i])

\* customer, address and city equal ignoring letter case, invoice equal
Matches(bill, billData) ==
  /\ EqualIgnoringCase(bill.customer, billData.customer)
  /\ EqualIgnoringCase(bill.address, billData.address)
  /\ EqualIgnoringCase(bill.city, billData.city)
  /\ bill.invoice = billData.invoice

\* C6: saveBill2 throws the duplicate error exactly when a stored record
\* matches billData (three fields ignoring case, invoice exactly), and
\* succeeds when none does
DuplicateExactlyWhenMatching ==
  last.op = "saveBill2"
    => LET matching == \E i \in 1..Len(Before) : Matches(Before[i], last.args.billData)
       IN  /\ (last.result = Throw(DuplicateMessage)) <=> matching
           /\ ~matching => last.result.kind = "bill"

DuplicateByCaseRefused ==
  /\ last.op = "saveBill2" /\ last.result = Throw(DuplicateMessage)
  /\ \E i \in 1..Len(Before) :
       /\ Matches(Before[i], last.args.billData)
       /\ Before[i].customer # last.args.billData.customer
       /\ Before[i].address # last.args.billData.address

\* C7: a saveBill2 refused as a duplicate calls setItem not once and leaves
\* both slots as they were, so the next save numbers its invoice as it would
\* have without the refused call
RefusedSaveChangesNothing ==
  last.op = "saveBill2" /\ last.result = Throw(DuplicateMessage)
    => /\ ~last.wrote
       /\ storage = last.before
       /\ InvoiceNumber(After, now) = InvoiceNumber(Before, now)

RefusedSaveDone ==
  /\ last.op = "saveBill2" /\ last.result = Throw(DuplicateMessage)
  /\ Len(Before) >= 2

\* C8: updateStatus with an id of no stored record calls setItem not once,
\* leaves both slots as they were and returns without an error
StatusOfMissingIdIsNoOp ==
  last.op \in StatusOps /\ ~Holds(Before, last.args.id)
    => /\ ~last.wrote
       /\ storage = last.before
       /\ last.result = ReturnVoid

StatusOfMissingIdDone ==
  /\ last.op \in StatusOps /\ ~Holds(Before, last.args.id)
  /\ Len(Before) >= 1
  /\ \A i \in 1..Len(After) : "updatedAt" \notin DOMAIN After[i]

\* C9: getAll of a slot that holds no value, or a text that is no array of
\* records, returns the empty sequence; getById, updateStatus and delete on
\* such a slot do not throw
UnreadableSlotReadsAsEmpty ==
  last.before[last.key].kind # "array"
    => /\ last.op \in GetAllOps => last.result = ReturnBills(<<>>)
       /\ last.op \in GetByIdOps \cup StatusOps \cup DeleteOps
            => last.result.kind # "throw"

\* the decimal form of n < 1000 in exactly three digits
ThreeDigits(n) ==
  ToString(n \div 100) \o ToString((n \div 10) % 10) \o ToString(n % 10)

\* the decimal form of n, with zeros in front while it has fewer than three digits
AtLeastThreeDigits(n) ==
  IF n < 10 THEN "00" \o ToString(n)
  ELSE IF n < 100 THEN "0" \o ToString(n) ELSE ToString(n)

YearOfCall == IF last.at < MsToNewYear THEN BaseYear ELSE BaseYear + 1

\* C10 as stated: the invoice number of a save is INV-<year>-<seq>, seq being
\* (records held when save was called) + 1 in exactly three digits
InvoiceSeqHasThreeDigits ==
  last.op \in SaveOps /\ last.result.kind = "bill"
    => /\ Len(Before) + 1 < 1000
       /\ last.result.bill.invoiceNumber
            = "INV-" \o ToString(YearOfCall) \o "-" \o ThreeDigits(Len(Before) + 1)

\* C10 as amended: seq is (records held when save was called) + 1 in decimal,
\* zero-padded to three digits and longer when the number needs more
InvoiceSeqPaddedToThree ==
  last.op \in SaveOps /\ last.result.kind = "bill"
    => last.result.bill.invoiceNumber
         = "INV-" \o ToString(YearOfCall) \o "-"
             \o AtLeastThreeDigits(Len(Before) + 1)

SaveIntoStoreOf999Done ==
  /\ last.op \in SaveOps /\ last.result.kind = "bill"
  /\ Len(Before) >= 999
  /\ Len(After) = Len(Before) + 1

(***************************************************************************)
(* Invoice numbers after a delete.                                         *)
(***************************************************************************)
\* the invoice number the year of the call gives to sequence n
NumberedInYearOfCall(n) ==
  "INV-" \o ToString(YearOfCall) \o "-" \o AtLeastThreeDigits(n)

\* the positions of `bills` whose record carries invoice number `number`
Carrying(bills, number) ==
  {i \in 1..Len(bills) : Prop(bills[i], "invoiceNumber") = number}

\* C11: a save numbers its record by the count of stored records alone, so
\* when the store already holds a record numbered (count + 1) for the year of
\* the call -- left there by a delete of an earlier record -- a save
\* that succeeds leaves the store holding two records with that invoice number
SaveRepeatsInvoiceNumberAfterDelete ==
  /\ last.op \in SaveOps /\ last.result.kind = "bill"
  /\ Carrying(Before, NumberedInYearOfCall(Len(Before) + 1)) # {}
  => /\ Len(After) = Len(Before) + 1
     /\ Prop(After[Len(After)], "invoiceNumber")
          = NumberedInYearOfCall(Len(Before) + 1)
     /\ \E i \in 1..Len(Before) :
          /\ After[i] = Before[i]
          /\ Prop(After[i], "invoiceNumber")
               = Prop(After[Len(After)], "invoiceNumber")

\* save, save, delete of the first record, save, all in one year: two stored
\* records carry the invoice number of sequence 002
TwoRecordsShareInvoiceNumber ==
  /\ last.op \in SaveOps /\ last.result.kind = "bill"
  /\ Len(After) = 2
  /\ Prop(After[1], "invoiceNumber") = Prop(After[2], "invoiceNumber")
  /\ Prop(After[1], "invoiceNumber") = NumberedInYearOfCall(2)

(***************************************************************************)
(* Two tabs saving into one slot.                                          *)
(***************************************************************************)
\* C12: the write of a saveBill replaces the slot by the array that call
\* read, with its own record pushed, and the call returns that record:
\* whatever another tab wrote to the slot since the read is no longer
\* stored, nothing is merged and no caller is told
WriteOfTabOverwritesSlot ==
  [][\A t \in Tabs :
       tabs[t].pc = "read" /\ tabs'[t].pc = "done"
         => LET written == BillsOf(storage', KeyA)
                read == tabs[t].bills
            IN  /\ last'.result = ReturnBill(tabs[t].newBill)
                /\ Len(written) = Len(read) + 1
                /\ \A i \in 1..Len(read) : written[i] = read[i]
                /\ SameRecord(written[Len(written)], tabs[t].newBill)]_vars

\* both tabs read the same array, each made a record of its own and both
\* saves returned their record; the slot holds one record more than was
\* read, that of the tab that wrote last
TwoSavesOneRecordKept ==
  /\ \A t \in Tabs : tabs[t].pc = "done"
  /\ tabs[1].bills = tabs[2].bills
  /\ ~SameRecord(tabs[1].newBill, tabs[2].newBill)
  /\ last.op = "saveBill" /\ last.result.kind = "bill"
  /\ Len(BillsOf(last.before, KeyA)) = Len(tabs[1].bills) + 1
  /\ Len(BillsOf(storage, KeyA)) = Len(tabs[1].bills) + 1
  /\ \E t \in Tabs :
       /\ SameRecord(BillsOf(storage, KeyA)[Len(tabs[1].bills) + 1],
                     tabs[t].newBill)
       /\ \A i \in 1..Len(BillsOf(storage, KeyA)) :
            \A u \in Tabs \ {t} :
              ~SameRecord(BillsOf(storage, KeyA)[i], tabs[u].newBill)

(***************************************************************************)
(* The record a save creates.                                              *)
(***************************************************************************)
\* the fields save writes itself
FieldsOfSave == {"id", "invoiceNumber", "status", "createdAt"}

\* C13: the record a save creates has status 'Pending', the id and the
\* creation time read from the clock of the call and the invoice number of
\* (records held + 1), whatever billData says of these four fields; every
\* other field of billData is in the record unchanged and the record has no
\* further field; the record stored reads the same
SaveWritesItsOwnFields ==
  last.op \in SaveOps /\ last.result.kind = "bill"
    => LET bill == last.result.bill
           billData == last.args.billData
       IN  /\ bill.status = "Pending"
           /\ bill.id = ToString(last.at)
           /\ bill.invoiceNumber = NumberedInYearOfCall(Len(Before) + 1)
           /\ bill.createdAt = toISOString(last.at)
           /\ DOMAIN bill = DOMAIN billData \cup FieldsOfSave
           /\ \A k \in DOMAIN billData \ FieldsOfSave : bill[k] = billData[k]
           /\ SameRecord(After[Len(After)], bill)

\* a save whose billData supplies the four fields itself, each with a value
\* other than the one save generates, along with fields of its own
SaveWithOwnFieldsDone ==
  /\ last.op \in SaveOps /\ last.result.kind = "bill"
  /\ FieldsOfSave \subseteq DOMAIN last.args.billData
  /\ \A k \in FieldsOfSave : last.args.billData[k] # last.result.bill[k]
  /\ "customer" \in DOMAIN last.args.billData
  /\ last.result.bill.customer = last.args.billData.customer

(***************************************************************************)
(* The two timestamps of a record.                                         *)
(***************************************************************************)
\* the position before the call of the record now stored at position i: a
\* delete that removed a record moved the later ones one place down
PositionBefore(i) ==
  IF last.op \in DeleteOps /\ last.result = ReturnBool(TRUE)
       /\ i >= findIndex(Before, last.args.id)
    THEN i + 1 ELSE i

\* C14: a record has no updatedAt when save has created it, whatever
\* billData was passed; only update and updateStatus change the updatedAt of
\* a stored record; no call changes the createdAt of a stored record
UpdatedAtSetOnlyByUpdates ==
  /\ last.op \in SaveOps /\ last.result.kind = "bill"
       => IsUndefined(Prop(After[Len(After)], "updatedAt"))
  /\ \A i \in 1..Len(After) :
       PositionBefore(i) <= Len(Before)
         => /\ Prop(After[i], "createdAt")
                 = Prop(Before[PositionBefore(i)], "createdAt")
            /\ last.op \notin UpdateOps \cup StatusOps
                 => Prop(After[i], "updatedAt")
                      = Prop(Before[PositionBefore(i)], "updatedAt")

(***************************************************************************)
(* The two stores.                                                         *)
(***************************************************************************)
StoreAOps == {"saveBill", "updateBill", "updateBillStatus", "deleteBill",
              "getSavedBills", "getBillById"}
StoreBOps == {"saveBill2", "updateBill2", "updateBillStatus2", "deleteBill2",
              "getSavedBills2", "getBillById2"}

ReadsReturnTheSlotAndWriteNothing ==
  /\ last.op \in GetAllOps \cup GetByIdOps
       => storage = last.before /\ ~last.wrote
  /\ last.op \in GetAllOps
       => /\ last.result.kind = "array"
          /\ Len(last.result.bills) = Len(After)
          /\ \A i \in 1..Len(After) : last.result.bills[i] = After[i]

\* getAll called on a slot of two records or more that differ
GetAllOfSeveralDone ==
  /\ last.op \in GetAllOps
  /\ Len(Before) >= 2
  /\ Before[1] # Before[2]
  /\ last.result.kind = "array" /\ Len(last.result.bills) >= 2

(***************************************************************************)
(* What a successful call changes.                                         *)
(***************************************************************************)
\* C17: after a successful save the slot holds the records it held, each
\* unchanged at its position, and one record more at the end, which reads
\* the same as the record returned
SaveAppendsOneRecord ==
  last.op \in SaveOps /\ last.result.kind = "bill"
    => /\ last.wrote
       /\ Len(After) = Len(Before) + 1
       /\ \A i \in 1..Len(Before) : After[i] = Before[i]
       /\ SameRecord(After[Len(After)], last.result.bill)

\* a save into a slot of two records that differ from each other and from
\* the new one
SaveIntoStoreOfTwoDone ==
  /\ last.op \in SaveOps /\ last.result.kind = "bill"
  /\ Len(Before) = 2
  /\ Before[1] # Before[2]
  /\ \A i \in 1..2 : ~SameRecord(Before[i], last.result.bill)

\* the position of the first record of `bills` with this id (one exists)
FirstWith(bills, id) ==
  CHOOSE i \in 1..Len(bills) :
    /\ IdAt(bills, i) = id
    /\ \A j \in 1..(i - 1) : IdAt(bills, j) # id

\* the fields update does not take from billData
FieldsUpdateKeeps == {"id", "invoiceNumber", "createdAt", "updatedAt"}

\* C18: a successful update changes the first stored record with the id and
\* nothing else: same length, every other record unchanged at its position;
\* in the record, each field of billData outside id, invoiceNumber,
\* createdAt, updatedAt has billData's value, each field billData does not
\* name keeps its value, updatedAt is the time of the call, there is no
\* further field, and the record returned reads the same as the stored one
UpdateMergesIntoFirstMatch ==
  last.op \in UpdateOps /\ last.result.kind = "bill"
    => /\ Holds(Before, last.args.id)
       /\ Len(After) = Len(Before)
       /\ LET i == FirstWith(Before, last.args.id)
              billData == last.args.billData
          IN  /\ \A j \in 1..Len(Before) : j # i => After[j] = Before[j]
              /\ \A k \in DOMAIN billData \ FieldsUpdateKeeps :
                   Prop(After[i], k) = billData[k]
              /\ \A k \in DOMAIN Before[i] \ (DOMAIN billData \cup {"updatedAt"}) :
                   Prop(After[i], k) = Before[i][k]
              /\ Prop(After[i], "updatedAt") = toISOString(last.at)
              /\ DOMAIN After[i]
                   \subseteq DOMAIN Before[i] \cup DOMAIN billData \cup {"updatedAt"}
              /\ SameRecord(After[i], last.result.bill)

\* an update of the second of two records, with a billData that names a
\* field the record has with another value and leaves others unnamed
UpdateOfSecondRecordDone ==
  /\ last.op \in UpdateOps /\ last.result.kind = "bill"
  /\ Len(Before) >= 2
  /\ Holds(Before, last.args.id) /\ FirstWith(Before, last.args.id) = 2
  /\ "notes" \in DOMAIN last.args.billData
  /\ "notes" \in DOMAIN Before[2]
  /\ Before[2].notes # last.args.billData.notes
  /\ "customer" \in DOMAIN Before[2] \ DOMAIN last.args.billData

\* C19: updateStatus with an id some stored record has changes the first
\* record with that id and nothing else: same length, every other record
\* unchanged at its position; in the record, status is the given one,
\* updatedAt is the time of the call and every other field is as it was
StatusUpdateChangesTwoFields ==
  last.op \in StatusOps /\ Holds(Before, last.args.id)
    => /\ last.result = ReturnVoid
       /\ Len(After) = Len(Before)
       /\ LET i == FirstWith(Before, last.args.id)
          IN  /\ \A j \in 1..Len(Before) : j # i => After[j] = Before[j]
              /\ Prop(After[i], "status") = last.args.status
              /\ Prop(After[i], "updatedAt") = toISOString(last.at)
              /\ DOMAIN After[i] = DOMAIN Before[i] \cup {"status", "updatedAt"}
              /\ \A k \in DOMAIN Before[i] \ {"status", "updatedAt"} :
                   After[i][k] = Before[i][k]

\* updateStatus with an id that two stored records have, giving a status
\* neither has
StatusUpdateOfSharedIdDone ==
  /\ last.op \in StatusOps
  /\ Len(Before) >= 2
  /\ IdAt(Before, 1) = last.args.id /\ IdAt(Before, 2) = last.args.id
  /\ Before[1].status # last.args.status
  /\ Before[2].status # last.args.status
  /\ After[1].status = last.args.status

(***************************************************************************)
(* The duplicate rule as a property of what Store B holds.                 *)
(***************************************************************************)
\* C20: no two records stored in Store B match each other by the rule of
\* saveBill2 (customer, address and city equal ignoring letter case, invoice
\* equal), whatever calls were made
NoTwoStoredBillsMatch ==
  \A i, j \in 1..Len(BillsOf(storage, KeyB)) :
    i # j => ~Matches(BillsOf(storage, KeyB)[i], BillsOf(storage, KeyB)[j])
====
